---- MODULE Spec2Model ----
(***************************************************************************)
(* Learning-management registry of finalproject.cpp: the Validator, the    *)
(* Course entity, the LMSManager singleton, the Admin / Teacher / Student  *)
(* facades and the login loop of main.                                     *)
(*                                                                         *)
(* The specifications share the state:                                     *)
(*   Spec       main with the Admin's registry and enrollment operations   *)
(*   SpecTeach  main with enrollment, Teacher::addGrade and the Student    *)
(*              methods                                                    *)
(*   SpecEdit   main with the content operations                           *)
(*   SpecFacade main with every operation that takes a course position,    *)
(*              on one student email and one content line                  *)
(*   SpecCourse the Course class under direct calls of its methods         *)
(*   SpecValid  the Course constructor, addContent and addGrade under      *)
(*              direct calls                                               *)
(*   SpecEmail  Validator::isValidEmail applied to every short string      *)
(*   SpecRegistry the LMSManager under direct calls of its methods         *)
(*                                                                         *)
(* A C++ std::string is a sequence of one-character strings, so that the   *)
(* Validator's find / rfind / length computations are carried out on the   *)
(* characters.  An exception is a record [type, what]; NoExc is "nothing   *)
(* thrown".  A method that can throw is an operator returning              *)
(* [exc |-> ..., c |-> the object after the call].                         *)
(***************************************************************************)
EXTENDS Integers, Sequences, FiniteSets, TLC

VARIABLES
    courses,    \* LMSManager::courses, the registry (vector<Course>)
    users,      \* the global vector<UserPtr> users (line 88)
    pc,         \* where main's control is: a prompt/menu, "exit" or "fatal"
    msg,        \* the outcome line the last operation printed
    view,       \* the data the last operation displayed (Student queries)
                \* or returned (LMSManager::getCourse); in SpecEmail the
                \* string handed to Validator::isValidEmail
    call,       \* the method last called directly, and what it threw (for
                \* Validator::isValidEmail also what it returned)
    ref         \* per course, a plain ordered list receiving the same
                \* add / remove content operations as Admin::editCourse
                \* (a course added starts with the empty list, a course
                \* deleted takes its list with it)

vars == <<courses, users, pc, msg, view, call, ref>>

----------------------------------------------------------------------------
\* Bounds of the exploration (not program constants).
MaxCourses  == 3    \* a course is added while the registry is shorter
MaxContents == 3    \* content is added while a course has fewer items
MaxEmailLen == 4    \* isValidEmail is applied to strings up to this length
MaxGrades   == 2    \* a grade is added while fewer records exist (in the
                    \* registry for Teacher::addGrade, in the course for a
                    \* direct Course::addGrade)

\* Validator::isValidString's "arbitrary max length"
MaxStrLen == 100

----------------------------------------------------------------------------
\* String literals of the source and of the inputs typed at the prompts.
\* "Mathematics"
S_Mathematics ==
    <<"M", "a", "t", "h", "e", "m", "a", "t", "i", "c", "s">>
\* "Physics"
S_Physics ==
    <<"P", "h", "y", "s", "i", "c", "s">>
\* "Introduction to Algebra"
S_IntroAlgebra ==
    <<"I", "n", "t", "r", "o", "d", "u", "c", "t", "i", "o", "n", " ", "t", "o", " ", "A", "l", "g", "e", "b", "r", "a">>
\* "Advanced Calculus"
S_AdvCalculus ==
    <<"A", "d", "v", "a", "n", "c", "e", "d", " ", "C", "a", "l", "c", "u", "l", "u", "s">>
\* "Newton's Laws"
S_NewtonsLaws ==
    <<"N", "e", "w", "t", "o", "n", "'", "s", " ", "L", "a", "w", "s">>
\* "Thermodynamics"
S_Thermodynamics ==
    <<"T", "h", "e", "r", "m", "o", "d", "y", "n", "a", "m", "i", "c", "s">>
\* "teacher1@example.com"
S_teacher1Email ==
    <<"t", "e", "a", "c", "h", "e", "r", "1", "@", "e", "x", "a", "m", "p", "l", "e", ".", "c", "o", "m">>
\* "teacher2@example.com"
S_teacher2Email ==
    <<"t", "e", "a", "c", "h", "e", "r", "2", "@", "e", "x", "a", "m", "p", "l", "e", ".", "c", "o", "m">>
\* "admin1@example.com"
S_admin1Email ==
    <<"a", "d", "m", "i", "n", "1", "@", "e", "x", "a", "m", "p", "l", "e", ".", "c", "o", "m">>
\* "admin1"
S_admin1 ==
    <<"a", "d", "m", "i", "n", "1">>
\* "teacher1"
S_teacher1 ==
    <<"t", "e", "a", "c", "h", "e", "r", "1">>
\* "teacher2"
S_teacher2 ==
    <<"t", "e", "a", "c", "h", "e", "r", "2">>
\* "adminpass"
S_adminpass ==
    <<"a", "d", "m", "i", "n", "p", "a", "s", "s">>
\* "teacherpass"
S_teacherpass ==
    <<"t", "e", "a", "c", "h", "e", "r", "p", "a", "s", "s">>
\* "0"
S_zero ==
    <<"0">>
\* "s1@example.com"
S_s1Email ==
    <<"s", "1", "@", "e", "x", "a", "m", "p", "l", "e", ".", "c", "o", "m">>
\* "s2@x.io"
S_s2Email ==
    <<"s", "2", "@", "x", ".", "i", "o">>
\* "t3@x.io"
S_t3Email ==
    <<"t", "3", "@", "x", ".", "i", "o">>
\* "s1@example"
S_noDot ==
    <<"s", "1", "@", "e", "x", "a", "m", "p", "l", "e">>
\* "Art"
S_Art ==
    <<"A", "r", "t">>
\* "Quiz"
S_Quiz ==
    <<"Q", "u", "i", "z">>
\* "pw"
S_pw ==
    <<"p", "w">>
\* a string of n characters
Filled(n) == [i \in 1..n |-> "x"]

----------------------------------------------------------------------------
\* Validator

\* string::npos
NPOS == -1

\* string::find(ch): zero-based position of the first ch, or npos
find(s, ch) ==
    IF \E i \in 1..Len(s) : s[i] = ch
    THEN (CHOOSE i \in 1..Len(s) : s[i] = ch /\ \A j \in 1..(i-1) : s[j] # ch) - 1
    ELSE NPOS

\* string::rfind(ch): zero-based position of the last ch, or npos
rfind(s, ch) ==
    IF \E i \in 1..Len(s) : s[i] = ch
    THEN (CHOOSE i \in 1..Len(s) : s[i] = ch /\ \A j \in (i+1)..Len(s) : s[j] # ch) - 1
    ELSE NPOS

\* the email check without the test atPos > 0
isValidEmail_noLocalPart(email) ==
    LET atPos  == find(email, "@")
        dotPos == rfind(email, ".")
    IN  /\ atPos # NPOS
        /\ dotPos # NPOS
        /\ atPos < dotPos
        /\ dotPos < Len(email) - 1

\* The conjunction short-circuits: positions are compared, and length()-1 is
\* computed, only when both characters were found (so length() >= 2).
isValidEmail(email) ==
    LET atPos  == find(email, "@")
        dotPos == rfind(email, ".")
    IN  /\ atPos # NPOS
        /\ dotPos # NPOS
        /\ atPos < dotPos
        /\ atPos > 0
        /\ dotPos < Len(email) - 1

isValidGrade(grade) == grade >= 0 /\ grade <= 100

\* the bound check admitting index = maxSize
isValidIndex_inclusive(index, maxSize) == index >= 0 /\ index <= maxSize

isValidIndex(index, maxSize) == index >= 0 /\ index < maxSize

\* the string check without the length limit
isValidString_noMax(str) == Len(str) # 0

isValidString(str) == Len(str) # 0 /\ Len(str) <= MaxStrLen

\* int: the least and greatest values
INT_MAX == 2147483647
INT_MIN == (-INT_MAX) - 1

\* userIndex - 1 on int.  At INT_MIN the subtraction overflows; the compiled
\* code either wraps to INT_MAX or folds the following test index >= 0 into
\* userIndex >= 1, and on both the bound check that follows rejects the
\* index, which is what the wrapped value gives here.
minus1(userIndex) == IF userIndex = INT_MIN THEN INT_MAX ELSE userIndex - 1

----------------------------------------------------------------------------
\* Exceptions

NoExc == [type |-> "none", what |-> ""]

ValidationException(m) == [type |-> "ValidationException", what |-> m]

InvalidCourseIndexException ==
    [type |-> "InvalidCourseIndexException", what |-> "Invalid course index!"]

out_of_range(m) == [type |-> "out_of_range", what |-> m]

\* The classes a thrown exception can be caught as.
Bases(type) ==
    CASE type = "ValidationException" ->
            {"ValidationException", "runtime_error", "exception"}
      [] type = "InvalidCourseIndexException" ->
            {"InvalidCourseIndexException", "runtime_error", "exception"}
      [] type = "out_of_range" ->
            {"out_of_range", "logic_error", "exception"}
      [] OTHER -> {}

\* catch (handler&) matches e
Catches(handler, e) == handler \in Bases(e.type)

Thrown(e) == e.type # "none"

----------------------------------------------------------------------------
\* Sequence helpers standing for the vector operations used.

\* vector::erase(begin() + index), index zero-based and in range
Erase(v, index) ==
    [i \in 1..(Len(v) - 1) |-> IF i <= index THEN v[i] ELSE v[i + 1]]

\* the elements of a vector
Elems(v) == {v[i] : i \in 1..Len(v)}

\* one-based position of the first occurrence of x in v (0 when absent):
\* the linear searches written as for-loops with break / return
FirstPos(v, x) ==
    IF \E i \in 1..Len(v) : v[i] = x
    THEN CHOOSE i \in 1..Len(v) : v[i] = x /\ \A j \in 1..(i-1) : v[j] # x
    ELSE 0

----------------------------------------------------------------------------
\* Course

\* Course::Course
Course(courseName, teacherEmail) ==
    IF ~isValidString(courseName)
    THEN [exc |-> ValidationException("Invalid course name"), c |-> <<>>]
    ELSE IF ~isValidEmail(teacherEmail)
    THEN [exc |-> ValidationException("Invalid teacher email"), c |-> <<>>]
    ELSE [exc |-> NoExc,
          c |-> [courseName |-> courseName, teacherEmail |-> teacherEmail,
                 contents |-> <<>>, grades |-> <<>>, enrolledStudents |-> <<>>]]

\* addContent inserting at the front
Course_addContent_front(c, content) ==
    IF ~isValidString(content)
    THEN [exc |-> ValidationException("Invalid content"), c |-> c]
    ELSE [exc |-> NoExc, c |-> [c EXCEPT !.contents = <<content>> \o @]]

Course_addContent(c, content) ==
    IF ~isValidString(content)
    THEN [exc |-> ValidationException("Invalid content"), c |-> c]
    ELSE [exc |-> NoExc, c |-> [c EXCEPT !.contents = Append(@, content)]]

Course_removeContent(c, index) ==
    IF ~isValidIndex(index, Len(c.contents))
    THEN [exc |-> InvalidCourseIndexException, c |-> c]
    ELSE [exc |-> NoExc, c |-> [c EXCEPT !.contents = Erase(@, index)]]

Course_addGrade(c, studentEmail, grade) ==
    IF ~isValidEmail(studentEmail)
    THEN [exc |-> ValidationException("Invalid student email"), c |-> c]
    ELSE IF ~isValidGrade(grade)
    THEN [exc |-> ValidationException("Invalid grade"), c |-> c]
    ELSE [exc |-> NoExc,
          c |-> [c EXCEPT !.grades = Append(@, <<studentEmail, grade>>)]]

\* enrollStudent without the search for an existing entry
Course_enrollStudent_noSearch(c, studentEmail) ==
    IF ~isValidEmail(studentEmail)
    THEN [exc |-> ValidationException("Invalid student email"), c |-> c]
    ELSE [exc |-> NoExc,
          c |-> [c EXCEPT !.enrolledStudents = Append(@, studentEmail)]]

Course_enrollStudent(c, studentEmail) ==
    IF ~isValidEmail(studentEmail)
    THEN [exc |-> ValidationException("Invalid student email"), c |-> c]
    ELSE IF \E i \in 1..Len(c.enrolledStudents) : c.enrolledStudents[i] = studentEmail
    THEN [exc |-> ValidationException("Student already enrolled"), c |-> c]
    ELSE [exc |-> NoExc,
          c |-> [c EXCEPT !.enrolledStudents = Append(@, studentEmail)]]

\* removeStudent that also drops the student's grade records
Course_removeStudent_cascade(c, studentEmail) ==
    LET p == FirstPos(c.enrolledStudents, studentEmail)
    IN  IF p # 0
        THEN [exc |-> NoExc,
              c |-> [c EXCEPT !.enrolledStudents = Erase(@, p - 1),
                              !.grades = SelectSeq(@, LAMBDA g : g[1] # studentEmail)]]
        ELSE [exc |-> ValidationException("Student not found"), c |-> c]

Course_removeStudent(c, studentEmail) ==
    LET p == FirstPos(c.enrolledStudents, studentEmail)
    IN  IF p # 0
        THEN [exc |-> NoExc,
              c |-> [c EXCEPT !.enrolledStudents = Erase(@, p - 1)]]
        ELSE [exc |-> ValidationException("Student not found"), c |-> c]

----------------------------------------------------------------------------
\* LMSManager

LMSManager_addCourse(cs, course) == Append(cs, course)

\* getCourse returning the first course for every valid index
LMSManager_getCourse_first(cs, index) ==
    IF ~isValidIndex(index, Len(cs))
    THEN [exc |-> InvalidCourseIndexException, at |-> 0]
    ELSE [exc |-> NoExc, at |-> 1]

\* returns the reference as the position it designates (at = index + 1 in
\* the one-based sequence)
LMSManager_getCourse(cs, index) ==
    IF ~isValidIndex(index, Len(cs))
    THEN [exc |-> InvalidCourseIndexException, at |-> 0]
    ELSE [exc |-> NoExc, at |-> index + 1]

\* removeCourse erasing the last course whatever the index
LMSManager_removeCourse_last(cs, index) ==
    IF ~isValidIndex(index, Len(cs))
    THEN [exc |-> InvalidCourseIndexException, cs |-> cs]
    ELSE [exc |-> NoExc, cs |-> Erase(cs, Len(cs) - 1)]

LMSManager_removeCourse(cs, index) ==
    IF ~isValidIndex(index, Len(cs))
    THEN [exc |-> InvalidCourseIndexException, cs |-> cs]
    ELSE [exc |-> NoExc, cs |-> Erase(cs, index)]

----------------------------------------------------------------------------
\* User objects (the fields of User plus the class of the object)

NewUser(role, username, email, password) ==
    [role |-> role, username |-> username, email |-> email, password |-> password]

\* string::substr(0, n)
substr0(s, n) == SubSeq(s, 1, n)

----------------------------------------------------------------------------
\* main: sample data

course1 ==
    Course_addContent(
        Course_addContent(Course(S_Mathematics, S_teacher1Email).c,
                          S_IntroAlgebra).c,
        S_AdvCalculus).c

course2 ==
    Course_addContent(
        Course_addContent(Course(S_Physics, S_teacher2Email).c,
                          S_NewtonsLaws).c,
        S_Thermodynamics).c

\* main's local vector `users` (it shadows the global one inside main)
mainUsers ==
    << NewUser("Admin",   S_admin1,   S_admin1Email,   S_adminpass),
       NewUser("Teacher", S_teacher1, S_teacher1Email, S_teacherpass),
       NewUser("Teacher", S_teacher2, S_teacher2Email, S_teacherpass) >>

Init ==
    /\ courses = LMSManager_addCourse(LMSManager_addCourse(<<>>, course1), course2)
    /\ users = <<>>
    /\ pc = "login"
    /\ msg = ""
    /\ view = <<>>
    /\ call = [method |-> "", exc |-> NoExc]
    /\ ref = [i \in 1..2 |-> <<course1, course2>>[i].contents]

----------------------------------------------------------------------------
\* Inputs typed at the prompts

\* course names / content lines read by getline (an empty line is possible)
CourseNameInputs == {S_Art, <<>>, Filled(MaxStrLen + 1)}
ContentInputs == {S_Quiz, <<>>, Filled(MaxStrLen), Filled(MaxStrLen + 1)}

TeacherEmailInputs == {S_teacher1Email, S_teacher2Email, S_t3Email, S_noDot}
StudentEmailInputs == {S_s1Email, S_teacher1Email, S_noDot}
PasswordInputs == {S_adminpass, S_teacherpass, S_pw}
LoginEmailInputs ==
    {S_zero, S_admin1Email, S_teacher1Email, S_teacher2Email, S_s1Email}
GradeInputs == {0, 87}

\* what is typed at an email prompt that repeats until the format is valid:
\* at most one rejected entry, then an accepted one
TypedEmails(set) ==
    {<<e>> : e \in {x \in set : isValidEmail(x)}}
    \cup {<<b, e>> : b \in {x \in set : ~isValidEmail(x)},
                     e \in {x \in set : isValidEmail(x)}}

\* what is typed at the student-email prompts
StudentTyped == TypedEmails(StudentEmailInputs)

\* the entry on which a do { cin >> email } while (!valid) loop stops
RECURSIVE FirstValidEmail(_)
FirstValidEmail(typed) ==
    IF isValidEmail(Head(typed)) THEN Head(typed) ELSE FirstValidEmail(Tail(typed))

\* integers typed at a plain `cin >> index` prompt for a collection of n items
IndexInputs(n) == ((-1)..(n + 1)) \cup {INT_MIN}

----------------------------------------------------------------------------
\* main: login loop

\* the menu a user object's virtual displayMenu() opens
DisplayMenuOf(role) ==
    CASE role = "Admin"   -> "Admin::displayMenu"
      [] role = "Teacher" -> "Teacher::displayMenu"
      [] role = "Student" -> "Student::displayMenu"

\* position in v of the first user with these credentials, 0 if none
FindLogin(v, email, password) ==
    IF \E i \in 1..Len(v) : v[i].email = email /\ v[i].password = password
    THEN CHOOSE i \in 1..Len(v) :
            /\ v[i].email = email /\ v[i].password = password
            /\ \A j \in 1..(i-1) : ~(v[j].email = email /\ v[j].password = password)
    ELSE 0

Login(email, password) ==
    /\ pc = "login"
    /\ IF email = S_zero
       THEN /\ pc' = "exit"
            /\ msg' = "Exiting program..."
       ELSE LET i == FindLogin(mainUsers, email, password)
            IN  IF i # 0
                THEN /\ pc' = DisplayMenuOf(mainUsers[i].role)
                     /\ msg' = ""
                ELSE /\ pc' = "login"
                     /\ msg' = "Invalid login credentials. Please try again."
    /\ view' = <<>>
    /\ UNCHANGED <<courses, users, call, ref>>

\* "Do you want to log in as a different role? (y/n)"
ChangeRole(answer) ==
    /\ pc = "changeRole"
    /\ IF answer = "n"
       THEN pc' = "exit" /\ msg' = "Logging out..."
       ELSE pc' = "login" /\ msg' = ""
    /\ view' = <<>>
    /\ UNCHANGED <<courses, users, call, ref>>

\* an exception that leaves the menus reaches main's catch
Fatal(e) ==
    /\ pc' = "fatal"
    /\ msg' = e.what

----------------------------------------------------------------------------
\* Admin

\* choices 1 (Manage Courses) and 5 (Log Out) of the menu loop
Admin_displayMenu(choice) ==
    /\ pc = "Admin::displayMenu"
    /\ IF choice = 1
       THEN pc' = "Admin::manageCourses" /\ msg' = ""
       ELSE pc' = "changeRole" /\ msg' = "Logging out..."
    /\ view' = <<>>
    /\ UNCHANGED <<courses, users, call, ref>>

\* choice 5 (Back) of the Manage Courses loop
Admin_manageCourses_back ==
    /\ pc = "Admin::manageCourses"
    /\ pc' = "Admin::displayMenu"
    /\ msg' = "Returning..."
    /\ view' = <<>>
    /\ UNCHANGED <<courses, users, call, ref>>

\* the search comparing the last account only
studentExists_lastOnly(us, studentEmail) ==
    Len(us) > 0 /\ us[Len(us)].email = studentEmail

\* the email-prompt loop of Admin::enrollStudent: does a user with this
\* email exist in the global users
studentExists(us, studentEmail) ==
    \E i \in 1..Len(us) : us[i].email = studentEmail

Admin_enrollStudent(userIndex, typed, studentPassword) ==
    /\ pc = "Admin::displayMenu"
    /\ IF Len(courses) = 0
       THEN /\ msg' = "There are no courses available for enrollment."
            /\ UNCHANGED <<courses, users, pc>>
       ELSE
         LET got == LMSManager_getCourse(courses, userIndex - 1)
             studentEmail == FirstValidEmail(typed)
         IN  IF Thrown(got.exc)
             THEN /\ msg' = got.exc.what
                  /\ UNCHANGED <<courses, users, pc>>
             ELSE IF studentExists(users, studentEmail)
             THEN /\ msg' = "Student with this email already exists. Cannot create a duplicate account."
                  /\ UNCHANGED <<courses, users, pc>>
             ELSE
               LET newStudent ==
                       NewUser("Student",
                               substr0(studentEmail, find(studentEmail, "@")),
                               studentEmail, studentPassword)
                   r == Course_enrollStudent(courses[got.at], studentEmail)
               IN  /\ users' = Append(users, newStudent)
                   /\ courses' = [courses EXCEPT ![got.at] = r.c]
                   /\ msg' = IF Thrown(r.exc) THEN r.exc.what
                             ELSE "Student enrolled successfully and account created."
                   /\ UNCHANGED pc
    /\ view' = <<>>
    /\ UNCHANGED <<call, ref>>

Admin_removeStudent(userIndex, studentEmail) ==
    /\ pc = "Admin::displayMenu"
    /\ IF Len(courses) = 0
       THEN /\ msg' = "There are no courses available."
            /\ UNCHANGED courses
       ELSE
         LET got == LMSManager_getCourse(courses, minus1(userIndex))
         IN  IF Thrown(got.exc)
             THEN /\ msg' = "Invalid course index. Please enter a number between 1 and size."
                  /\ UNCHANGED courses
             ELSE IF Len(courses[got.at].enrolledStudents) = 0
             THEN /\ msg' = "There is no student here."
                  /\ UNCHANGED courses
             ELSE
               LET r == Course_removeStudent(courses[got.at], studentEmail)
               IN  IF Thrown(r.exc)
                   THEN /\ msg' = "Student not found in the course."
                        /\ UNCHANGED courses
                   ELSE /\ msg' = "Student removed successfully."
                        /\ courses' = [courses EXCEPT ![got.at] = r.c]
    /\ view' = <<>>
    /\ UNCHANGED <<users, pc, call, ref>>

\* the ownership loop comparing the last course only
teacherAssigned_lastOnly(cs, teacherEmail) ==
    Len(cs) > 0 /\ cs[Len(cs)].teacherEmail = teacherEmail

\* the loop "Ensure teacher is not managing multiple subjects"
teacherAssigned(cs, teacherEmail) ==
    \E i \in 1..Len(cs) : cs[i].teacherEmail = teacherEmail

Admin_addCourse(courseName, teacherEmail) ==
    /\ pc = "Admin::manageCourses"
    /\ IF teacherAssigned(courses, teacherEmail)
       THEN /\ msg' = "Error: Teacher is already assigned to another course."
            /\ UNCHANGED <<courses, pc>>
       ELSE
         LET newCourse == Course(courseName, teacherEmail)
         IN  IF Thrown(newCourse.exc)
             THEN /\ Fatal(newCourse.exc)
                  /\ UNCHANGED courses
             ELSE /\ Len(courses) < MaxCourses
                  /\ courses' = LMSManager_addCourse(courses, newCourse.c)
                  /\ msg' = "Course added successfully."
                  /\ UNCHANGED pc
    /\ ref' = [i \in 1..Len(courses') |-> courses'[i].contents]
    /\ view' = <<>>
    /\ UNCHANGED <<users, call>>

Admin_deleteCourse(index) ==
    /\ pc = "Admin::manageCourses"
    /\ IF Len(courses) = 0
       THEN /\ msg' = "There are no courses to delete."
            /\ UNCHANGED courses
       ELSE IF index < 1 \/ index > Len(courses)
       THEN /\ msg' = "Invalid course index."
            /\ UNCHANGED courses
       ELSE
         LET r == LMSManager_removeCourse(courses, index - 1)
         IN  IF Thrown(r.exc)
             THEN /\ msg' = "Invalid course index."
                  /\ UNCHANGED courses
             ELSE /\ msg' = "Successfully deleted course"
                  /\ courses' = r.cs
    /\ ref' = IF Len(courses') = Len(courses) THEN ref
              ELSE Erase(ref, index - 1)
    /\ view' = <<>>
    /\ UNCHANGED <<users, pc, call>>

\* The body of Admin::editCourse on the registry: [cs, msg, exc], exc being
\* the exception that leaves the function (NoExc when it returns).
\* An input is read only on the path that prompts for it.
editCourse(cs, userIndex, choice, contentChoice, content, userContentIndex) ==
    IF Len(cs) = 0
    THEN [cs |-> cs, msg |-> "There are no courses available.", exc |-> NoExc]
    ELSE
      LET got == LMSManager_getCourse(cs, minus1(userIndex))
      IN  IF Thrown(got.exc)
          THEN \* catch (InvalidCourseIndexException&) of the outer try
               [cs |-> cs, exc |-> NoExc,
                msg |-> "Invalid course index. Please enter a number between 1 and size."]
          ELSE IF choice # "y"
          THEN [cs |-> cs, msg |-> "Editing course", exc |-> NoExc]
          ELSE IF contentChoice = 1
          THEN
            LET r == Course_addContent(cs[got.at], content)
            IN  IF Thrown(r.exc)
                THEN IF Catches("InvalidCourseIndexException", r.exc)
                     THEN [cs |-> cs, exc |-> NoExc,
                           msg |-> "Invalid course index. Please enter a number between 1 and size."]
                     ELSE [cs |-> cs, msg |-> "", exc |-> r.exc]
                ELSE [cs |-> [cs EXCEPT ![got.at] = r.c], exc |-> NoExc,
                      msg |-> "Content added successfully."]
          ELSE IF contentChoice = 2
          THEN
            IF Len(cs[got.at].contents) = 0
            THEN [cs |-> cs, msg |-> "There is no content to remove.", exc |-> NoExc]
            ELSE
              LET r == Course_removeContent(cs[got.at], minus1(userContentIndex))
              IN  IF Thrown(r.exc)
                  THEN IF Catches("out_of_range", r.exc)
                       THEN [cs |-> cs, exc |-> NoExc,
                             msg |-> "Invalid content index. Please enter a number between 1 and size."]
                       ELSE IF Catches("InvalidCourseIndexException", r.exc)
                       THEN [cs |-> cs, exc |-> NoExc,
                             msg |-> "Invalid course index. Please enter a number between 1 and size."]
                       ELSE [cs |-> cs, msg |-> "", exc |-> r.exc]
                  ELSE [cs |-> [cs EXCEPT ![got.at] = r.c], exc |-> NoExc,
                        msg |-> "Content removed successfully."]
          ELSE [cs |-> cs, msg |-> "Invalid choice. Please select 1 or 2.", exc |-> NoExc]

\* The inputs of one Admin::editCourse run: those the path taken does not
\* read are fixed, so that each run is enumerated once.
EditInputs(cs) ==
    LET Idx == IndexInputs(Len(cs))
        Mk(k, ch, cc, s, ci) ==
            [userIndex |-> k, choice |-> ch, contentChoice |-> cc,
             content |-> s, userContentIndex |-> ci]
    IN  {Mk(k, "n", 0, <<>>, 0) : k \in Idx}
        \cup {Mk(k, "y", 1, s, 0) : k \in 1..Len(cs), s \in ContentInputs}
        \cup {Mk(k, "y", 2, <<>>, ci) : k \in 1..Len(cs), ci \in IndexInputs(MaxContents)}
        \cup {Mk(k, "y", 3, <<>>, 0) : k \in 1..Len(cs)}

\* content is added while the course has fewer than MaxContents items
EditBounded(in) ==
    (in.choice = "y" /\ in.contentChoice = 1)
        => Len(courses[in.userIndex].contents) < MaxContents

\* Reference of the round-trip property (C9_EditRoundTrip), not part of the
\* program: the same operation on a plain ordered list. add appends a valid
\* string, remove(k) deletes element k-1 when 1 <= k <= length, anything
\* else does nothing.
PlainEdit(list, in) ==
    IF in.choice = "y" /\ in.contentChoice = 1
    THEN IF Len(in.content) >= 1 /\ Len(in.content) <= MaxStrLen
         THEN list \o <<in.content>>
         ELSE list
    ELSE IF in.choice = "y" /\ in.contentChoice = 2
    THEN IF 1 <= in.userContentIndex /\ in.userContentIndex <= Len(list)
         THEN SubSeq(list, 1, in.userContentIndex - 1)
                  \o SubSeq(list, in.userContentIndex + 1, Len(list))
         ELSE list
    ELSE list

Admin_editCourse(in) ==
    /\ pc = "Admin::manageCourses"
    /\ EditBounded(in)
    /\ LET r == editCourse(courses, in.userIndex, in.choice, in.contentChoice,
                           in.content, in.userContentIndex)
       IN  IF Thrown(r.exc)
           THEN Fatal(r.exc) /\ UNCHANGED courses
           ELSE courses' = r.cs /\ msg' = r.msg /\ UNCHANGED pc
    /\ ref' = [i \in DOMAIN ref |->
                 IF i = in.userIndex THEN PlainEdit(ref[i], in) ELSE ref[i]]
    /\ view' = <<>>
    /\ UNCHANGED <<users, call>>

----------------------------------------------------------------------------
\* Teacher

\* choices 1 (Manage Courses) and 4 (Log Out) of the menu loop
Teacher_displayMenu(choice) ==
    /\ pc = "Teacher::displayMenu"
    /\ IF choice = 1
       THEN pc' = "Teacher::manageCourses" /\ msg' = ""
       ELSE pc' = "changeRole" /\ msg' = "Logging out..."
    /\ view' = <<>>
    /\ UNCHANGED <<courses, users, call, ref>>

\* choice 5 (Back) of the Manage Courses loop
Teacher_manageCourses_back ==
    /\ pc = "Teacher::manageCourses"
    /\ pc' = "Teacher::displayMenu"
    /\ msg' = "Returning..."
    /\ view' = <<>>
    /\ UNCHANGED <<courses, users, call, ref>>

\* number of grade records in the registry
RECURSIVE TotalGrades(_)
TotalGrades(cs) ==
    IF Len(cs) = 0 THEN 0 ELSE Len(Head(cs).grades) + TotalGrades(Tail(cs))

\* the enrollment check accepting every email
studentFound_any(c, studentEmail) == TRUE

\* "Validate student enrollment"
studentFound(c, studentEmail) ==
    \E i \in 1..Len(c.enrolledStudents) : c.enrolledStudents[i] = studentEmail

\* reached from the teacher menu (choice 3) and from Manage Courses (choice 3)
Teacher_addGrade(courseIndex, typed, grade) ==
    /\ pc \in {"Teacher::displayMenu", "Teacher::manageCourses"}
    /\ IF Len(courses) = 0
       THEN /\ msg' = "No courses available."
            /\ UNCHANGED courses
       ELSE
         LET got == LMSManager_getCourse(courses, courseIndex - 1)
             studentEmail == FirstValidEmail(typed)
         IN  IF Thrown(got.exc)
             THEN /\ msg' = got.exc.what
                  /\ UNCHANGED courses
             ELSE IF ~studentFound(courses[got.at], studentEmail)
             THEN /\ msg' = "Student is not enrolled in this course."
                  /\ UNCHANGED courses
             ELSE
               LET r == Course_addGrade(courses[got.at], studentEmail, grade)
               IN  /\ TotalGrades(courses) < MaxGrades
                   /\ IF Thrown(r.exc)
                      THEN /\ msg' = r.exc.what
                           /\ UNCHANGED courses
                      ELSE /\ msg' = "Grade added successfully for student"
                           /\ courses' = [courses EXCEPT ![got.at] = r.c]
    /\ view' = <<>>
    /\ UNCHANGED <<users, pc, call, ref>>

\* choice 2 (Add Content) of Teacher::manageCourses
Teacher_addContent(index, content) ==
    /\ pc = "Teacher::manageCourses"
    /\ IF Len(courses) = 0
       THEN /\ msg' = "No courses available."
            /\ UNCHANGED courses
       ELSE
         LET got == LMSManager_getCourse(courses, index - 1)
         IN  IF Thrown(got.exc)
             THEN /\ msg' = got.exc.what
                  /\ UNCHANGED courses
             ELSE
               LET r == Course_addContent(courses[got.at], content)
               IN  /\ Len(courses[got.at].contents) < MaxContents
                   /\ IF Thrown(r.exc)
                      THEN /\ msg' = r.exc.what
                           /\ UNCHANGED courses
                      ELSE /\ msg' = "Content added to the course"
                           /\ courses' = [courses EXCEPT ![got.at] = r.c]
    /\ ref' = [i \in DOMAIN ref |->
                 IF i = index
                 THEN PlainEdit(ref[i], [choice |-> "y", contentChoice |-> 1,
                                         content |-> content])
                 ELSE ref[i]]
    /\ view' = <<>>
    /\ UNCHANGED <<users, pc, call>>

----------------------------------------------------------------------------
\* Student
\*
\* main's login loop searches its local users, which holds no Student, so
\* no run of main opens Student::displayMenu.  The Student methods are
\* called here on the Student objects that exist, those of the global
\* users, at the point where the login loop dispatches to a user object.

\* the operations Student::displayMenu offers (choices 1 and 2; 3 logs out)
StudentMenuOps == {"viewEnrolledCourses", "viewGrades"}

isEnrolled(c, email) ==
    \E i \in 1..Len(c.enrolledStudents) : c.enrolledStudents[i] = email

\* the copies taken without the enrollment test
enrolledCourses_all(cs, email) == cs

\* the local vector<Course> of copies built by viewEnrolledCourses / viewGrades
enrolledCourses(cs, email) == SelectSeq(cs, LAMBDA c : isEnrolled(c, email))

\* the local vector<Course> of copies built by enrollInCourse
unenrolledCourses(cs, email) == SelectSeq(cs, LAMBDA c : ~isEnrolled(c, email))

\* the second component of the first grade record of this email, as a
\* one-element list; empty when there is none
firstGradeOf(c, email) ==
    LET hits == SelectSeq(c.grades, LAMBDA g : g[1] = email)
    IN  IF Len(hits) = 0 THEN <<>> ELSE <<Head(hits)[2]>>

StudentObjects == {i \in 1..Len(users) : users[i].role = "Student"}

Student_viewEnrolledCourses(s, index) ==
    /\ pc = "login"
    /\ LET email == users[s].email
           mine == enrolledCourses(courses, email)
       IN  IF Len(mine) = 0
           THEN msg' = "You are not enrolled in any courses." /\ view' = <<>>
           ELSE IF index = 0
           THEN /\ msg' = "Your Enrolled Courses:"
                /\ view' = [i \in 1..Len(mine) |-> mine[i].courseName]
           ELSE /\ msg' = IF Len(mine[index].contents) = 0
                          THEN "No contents available for this course."
                          ELSE "Your Enrolled Courses:"
                /\ view' = mine[index].contents
    /\ UNCHANGED <<courses, users, pc, call, ref>>

Student_viewGrades(s, index) ==
    /\ pc = "login"
    /\ LET email == users[s].email
           mine == enrolledCourses(courses, email)
       IN  IF Len(mine) = 0
           THEN msg' = "You are not enrolled in any courses." /\ view' = <<>>
           ELSE IF index = 0
           THEN msg' = "Your Enrolled Courses:" /\ view' = <<>>
           ELSE LET shown == firstGradeOf(mine[index], email)
                IN  /\ view' = shown
                    /\ msg' = IF Len(shown) # 0 THEN "Your Grade in"
                              ELSE "No grade available for this course."
    /\ UNCHANGED <<courses, users, pc, call, ref>>

\* course.enrollStudent acts on an element of the local copies; the
\* registry is not written
Student_enrollInCourse(s, courseIndex) ==
    /\ pc = "login"
    /\ LET email == users[s].email
           others == unenrolledCourses(courses, email)
       IN  IF Len(others) = 0
           THEN msg' = "No courses available for enrollment."
           ELSE IF courseIndex = 0
           THEN msg' = "Available Courses:"
           ELSE LET r == Course_enrollStudent(others[courseIndex], email)
                IN  msg' = IF Thrown(r.exc) THEN r.exc.what
                           ELSE "Successfully enrolled in the course"
    /\ view' = <<>>
    /\ UNCHANGED <<courses, users, pc, call, ref>>

----------------------------------------------------------------------------
\* Course methods called directly on the course object at position k of the
\* registry, with arbitrary arguments (the contract of the class itself).

CourseEmailArgs == {S_s1Email, S_s2Email, S_t3Email, S_noDot}
CourseContentArgs == {<<>>, Filled(MaxStrLen), Filled(MaxStrLen + 1)}
CourseGradeEmailArgs == {S_s1Email, S_noDot}
CourseGradeArgs == {-1, 0, 100, 101}
CourseIndexArgs == (-1)..(MaxContents + 1)

Called(k, method, r) ==
    /\ courses' = [courses EXCEPT ![k] = r.c]
    /\ call' = [method |-> method, exc |-> r.exc]
    /\ UNCHANGED <<users, pc, msg, view, ref>>

Call_addContent(k, content) ==
    LET r == Course_addContent(courses[k], content)
    IN  /\ Len(r.c.contents) <= MaxContents
        /\ Called(k, "addContent", r)

Call_removeContent(k, index) ==
    Called(k, "removeContent", Course_removeContent(courses[k], index))

Call_addGrade(k, studentEmail, grade) ==
    LET r == Course_addGrade(courses[k], studentEmail, grade)
    IN  /\ Len(r.c.grades) <= MaxGrades
        /\ Called(k, "addGrade", r)

Call_enrollStudent(k, studentEmail) ==
    Called(k, "enrollStudent", Course_enrollStudent(courses[k], studentEmail))

Call_removeStudent(k, studentEmail) ==
    Called(k, "removeStudent", Course_removeStudent(courses[k], studentEmail))

\* the arguments of a Course constructed directly
CourseNameArgs == {S_Art, <<>>, Filled(MaxStrLen), Filled(MaxStrLen + 1)}
CourseTeacherArgs == {S_t3Email, S_teacher1Email, S_noDot}

\* Course course(courseName, teacherEmail); lms->addCourse(course); as main
\* does for the sample data: a constructor that throws adds nothing
Call_Course(courseName, teacherEmail) ==
    LET r == Course(courseName, teacherEmail)
    IN  /\ IF Thrown(r.exc)
           THEN UNCHANGED courses
           ELSE /\ Len(courses) < MaxCourses
                /\ courses' = LMSManager_addCourse(courses, r.c)
        /\ call' = [method |-> "Course", exc |-> r.exc]
        /\ UNCHANGED <<users, pc, msg, view, ref>>

----------------------------------------------------------------------------
\* Validator::isValidEmail called directly on every string over a small
\* alphabet

EmailAlphabet == {"@", ".", "a"}
EmailStrings == UNION {[1..n -> EmailAlphabet] : n \in 0..MaxEmailLen}

InitEmail ==
    /\ courses = LMSManager_addCourse(LMSManager_addCourse(<<>>, course1), course2)
    /\ users = <<>>
    /\ pc = "login"
    /\ msg = ""
    /\ view \in EmailStrings
    /\ call = [method |-> "", exc |-> NoExc, ret |-> FALSE]
    /\ ref = [i \in 1..2 |-> <<course1, course2>>[i].contents]

Call_isValidEmail ==
    /\ call.method = ""
    /\ call' = [method |-> "isValidEmail", exc |-> NoExc, ret |-> isValidEmail(view)]
    /\ UNCHANGED <<courses, users, pc, msg, view, ref>>

----------------------------------------------------------------------------
\* LMSManager methods called directly on the singleton, with arbitrary
\* arguments (the contract of the class itself).

\* the Course objects handed to LMSManager::addCourse
RegistryCourseArgs ==
    {Course(n, e).c : n \in {S_Art, S_Physics}, e \in {S_t3Email, S_teacher1Email}}
RegistryIndexArgs == (-1)..(MaxCourses + 1)

Call_addCourse(course) ==
    /\ Len(courses) < MaxCourses
    /\ courses' = LMSManager_addCourse(courses, course)
    /\ call' = [method |-> "addCourse", exc |-> NoExc]
    /\ view' = <<>>
    /\ UNCHANGED <<users, pc, msg, ref>>

\* the Course& returned is shown as the course it designates
Call_getCourse(index) ==
    LET r == LMSManager_getCourse(courses, index)
    IN  /\ call' = [method |-> "getCourse", exc |-> r.exc]
        /\ view' = IF Thrown(r.exc) THEN <<>> ELSE <<courses[r.at]>>
        /\ UNCHANGED <<courses, users, pc, msg, ref>>

Call_removeCourse(index) ==
    LET r == LMSManager_removeCourse(courses, index)
    IN  /\ courses' = r.cs
        /\ call' = [method |-> "removeCourse", exc |-> r.exc]
        /\ view' = <<>>
        /\ UNCHANGED <<users, pc, msg, ref>>

----------------------------------------------------------------------------
\* Steps: an operation with its inputs drawn from the input sets.

\* integers typed at a getValidatedIntInput prompt
IntTyped(min, max) == ((min - 2)..(max + 1)) \cup {INT_MIN, INT_MAX}

\* what getValidatedIntInput(prompt, min, max) can return: an entry outside
\* min..max is answered with "Please enter a number between ..." and the
\* prompt repeats
getValidatedIntInput(min, max) ==
    {input \in IntTyped(min, max) : input >= min /\ input <= max}

\* the course index entered at a validated prompt (with no course the
\* operation returns before prompting)
CoursePrompt == IF Len(courses) = 0 THEN {0} ELSE getValidatedIntInput(1, Len(courses))

LoginStep ==
    \E email \in LoginEmailInputs, password \in PasswordInputs :
        Login(email, password)

ChangeRoleStep == \E answer \in {"y", "n"} : ChangeRole(answer)

AdminMenuStep == \E choice \in {1, 5} : Admin_displayMenu(choice)

EnrollStudentStep ==
    \E userIndex \in CoursePrompt, typed \in StudentTyped,
       studentPassword \in {S_pw} :
        Admin_enrollStudent(userIndex, typed, studentPassword)

RemoveStudentStep ==
    \E userIndex \in IndexInputs(Len(courses)), studentEmail \in StudentEmailInputs :
        Admin_removeStudent(userIndex, studentEmail)

AddCourseStep ==
    \E courseName \in CourseNameInputs, teacherEmail \in TeacherEmailInputs :
        Admin_addCourse(courseName, teacherEmail)

DeleteCourseStep == \E index \in IndexInputs(Len(courses)) : Admin_deleteCourse(index)

EditCourseStep == \E in \in EditInputs(courses) : Admin_editCourse(in)

TeacherMenuStep == \E choice \in {1, 4} : Teacher_displayMenu(choice)

AddGradeStep ==
    \E courseIndex \in CoursePrompt, typed \in StudentTyped,
       grade \in GradeInputs :
        Teacher_addGrade(courseIndex, typed, grade)

AddContentStep ==
    \E index \in CoursePrompt, content \in ContentInputs :
        Teacher_addContent(index, content)

ViewEnrolledCoursesStep ==
    \E s \in StudentObjects :
        \E index \in getValidatedIntInput(0, Len(enrolledCourses(courses, users[s].email))) :
            Student_viewEnrolledCourses(s, index)

ViewGradesStep ==
    \E s \in StudentObjects :
        \E index \in getValidatedIntInput(0, Len(enrolledCourses(courses, users[s].email))) :
            Student_viewGrades(s, index)

EnrollInCourseStep ==
    \E s \in StudentObjects :
        \E courseIndex \in getValidatedIntInput(0, Len(unenrolledCourses(courses, users[s].email))) :
            Student_enrollInCourse(s, courseIndex)

CallAddContentStep == \E content \in CourseContentArgs : Call_addContent(1, content)
CallRemoveContentStep == \E index \in CourseIndexArgs : Call_removeContent(1, index)
CallAddGradeStep ==
    \E studentEmail \in CourseGradeEmailArgs, grade \in CourseGradeArgs :
        Call_addGrade(1, studentEmail, grade)
CallEnrollStudentStep == \E studentEmail \in CourseEmailArgs : Call_enrollStudent(1, studentEmail)
CallRemoveStudentStep == \E studentEmail \in CourseEmailArgs : Call_removeStudent(1, studentEmail)

\* The operations that take a course position, with one valid student email,
\* one grade and one content line.
FacadeEditInputs(cs) ==
    {in \in EditInputs(cs) :
        /\ in.contentChoice = 1 => in.content = S_Quiz
        /\ in.contentChoice = 2 => in.userContentIndex \in {0, 1}}

FacadeEditCourseStep == \E in \in FacadeEditInputs(courses) : Admin_editCourse(in)

FacadeEnrollStudentStep ==
    \E userIndex \in CoursePrompt : Admin_enrollStudent(userIndex, <<S_s1Email>>, S_pw)

FacadeRemoveStudentStep ==
    \E userIndex \in IndexInputs(Len(courses)) : Admin_removeStudent(userIndex, S_s1Email)

FacadeAddGradeStep ==
    \E courseIndex \in CoursePrompt : Teacher_addGrade(courseIndex, <<S_s1Email>>, 87)

FacadeAddContentStep ==
    \E index \in CoursePrompt : Teacher_addContent(index, S_Quiz)

CallCourseStep ==
    \E courseName \in CourseNameArgs, teacherEmail \in CourseTeacherArgs :
        Call_Course(courseName, teacherEmail)

CallAddCourseStep == \E course \in RegistryCourseArgs : Call_addCourse(course)
CallGetCourseStep == \E index \in RegistryIndexArgs : Call_getCourse(index)
CallRemoveCourseStep == \E index \in RegistryIndexArgs : Call_removeCourse(index)

----------------------------------------------------------------------------
\* Specifications

\* main with the Admin's registry and enrollment operations
Next ==
    \/ LoginStep
    \/ ChangeRoleStep
    \/ AdminMenuStep
    \/ Admin_manageCourses_back
    \/ TeacherMenuStep
    \/ Teacher_manageCourses_back
    \/ AddCourseStep
    \/ DeleteCourseStep
    \/ EnrollStudentStep
    \/ RemoveStudentStep

Spec == Init /\ [][Next]_vars

\* main with enrollment, Teacher::addGrade and the Student methods
NextTeach ==
    \/ LoginStep
    \/ ChangeRoleStep
    \/ AdminMenuStep
    \/ Admin_manageCourses_back
    \/ TeacherMenuStep
    \/ Teacher_manageCourses_back
    \/ EnrollStudentStep
    \/ RemoveStudentStep
    \/ AddGradeStep
    \/ ViewEnrolledCoursesStep
    \/ ViewGradesStep
    \/ EnrollInCourseStep

SpecTeach == Init /\ [][NextTeach]_vars

\* main with the content operations: Admin::editCourse and the Teacher's
\* Add Content
NextEdit ==
    \/ LoginStep
    \/ ChangeRoleStep
    \/ AdminMenuStep
    \/ Admin_manageCourses_back
    \/ TeacherMenuStep
    \/ Teacher_manageCourses_back
    \/ EditCourseStep
    \/ AddContentStep

SpecEdit == Init /\ [][NextEdit]_vars

\* the Course class under direct calls
NextCourse ==
    \/ CallAddContentStep
    \/ CallRemoveContentStep
    \/ CallAddGradeStep
    \/ CallEnrollStudentStep
    \/ CallRemoveStudentStep

SpecCourse == Init /\ [][NextCourse]_vars

\* main with every operation that takes a course position
NextFacade ==
    \/ LoginStep
    \/ ChangeRoleStep
    \/ AdminMenuStep
    \/ Admin_manageCourses_back
    \/ TeacherMenuStep
    \/ Teacher_manageCourses_back
    \/ DeleteCourseStep
    \/ FacadeEditCourseStep
    \/ FacadeEnrollStudentStep
    \/ FacadeRemoveStudentStep
    \/ FacadeAddGradeStep
    \/ FacadeAddContentStep

SpecFacade == Init /\ [][NextFacade]_vars

\* the Course constructor, addContent and addGrade under direct calls
NextValid ==
    \/ CallCourseStep
    \/ CallAddContentStep
    \/ CallAddGradeStep

SpecValid == Init /\ [][NextValid]_vars

\* Validator::isValidEmail on every short string
NextEmail == Call_isValidEmail

SpecEmail == InitEmail /\ [][NextEmail]_vars

\* the LMSManager under direct calls
NextRegistry ==
    \/ CallAddCourseStep
    \/ CallGetCourseStep
    \/ CallRemoveCourseStep

SpecRegistry == Init /\ [][NextRegistry]_vars

----------------------------------------------------------------------------
\* Properties

\* the enrolled list without every entry equal to email, order kept
Without(list, email) == SelectSeq(list, LAMBDA x : x # email)

\* C1: no two courses of the registry have the same owning instructor
\* email, and an Admin::addCourse naming an instructor who already owns a
\* course is rejected and leaves the registry unchanged.
C1_OneCoursePerInstructor ==
    /\ [](\A i, j \in 1..Len(courses) :
            i # j => courses[i].teacherEmail # courses[j].teacherEmail)
    /\ [][\A courseName \in CourseNameInputs, teacherEmail \in TeacherEmailInputs :
            (/\ Admin_addCourse(courseName, teacherEmail)
             /\ \E i \in 1..Len(courses) : courses[i].teacherEmail = teacherEmail)
            => /\ courses' = courses
               /\ msg' = "Error: Teacher is already assigned to another course."]_vars

\* a second course for an owning instructor was refused
C1_Witness ==
    /\ msg = "Error: Teacher is already assigned to another course."
    /\ Len(courses) >= 1
    /\ pc = "Admin::manageCourses"

\* C2: Teacher::addGrade appends (email, grade) to the selected course only
\* if the email is enrolled there at that moment; otherwise it reports
\* "Student is not enrolled in this course." and no course's grade list changes.
C2_GradeOnlyEnrolled ==
    [][\A courseIndex \in 1..Len(courses), typed \in StudentTyped,
          grade \in GradeInputs :
        Teacher_addGrade(courseIndex, typed, grade) =>
            LET email == typed[Len(typed)]
            IN  IF email \in Elems(courses[courseIndex].enrolledStudents)
                THEN /\ msg' = "Grade added successfully for student"
                     /\ courses'[courseIndex].grades =
                            courses[courseIndex].grades \o <<(<<email, grade>>)>>
                     /\ \A i \in 1..Len(courses) :
                            i # courseIndex => courses'[i].grades = courses[i].grades
                ELSE /\ msg' = "Student is not enrolled in this course."
                     /\ \A i \in 1..Len(courses) :
                            courses'[i].grades = courses[i].grades]_vars

\* a grade was refused for an email enrolled in another course only
C2_Witness ==
    /\ msg = "Student is not enrolled in this course."
    /\ \E i \in 1..Len(courses) : Len(courses[i].enrolledStudents) > 0
    /\ \E i \in 1..Len(courses) : Len(courses[i].grades) > 0

\* C3: Course::enrollStudent for an email already in the enrolled list fails
\* and leaves the list unchanged, so every email appears at most once in a
\* course's enrolled list.
C3_EnrollOnce ==
    /\ [](\A k \in 1..Len(courses) :
            \A i, j \in 1..Len(courses[k].enrolledStudents) :
                i # j => courses[k].enrolledStudents[i] # courses[k].enrolledStudents[j])
    /\ [][\A studentEmail \in CourseEmailArgs :
            (/\ Call_enrollStudent(1, studentEmail)
             /\ studentEmail \in Elems(courses[1].enrolledStudents))
            => /\ call'.exc = ValidationException("Student already enrolled")
               /\ courses' = courses]_vars

\* a second enrollment of an enrolled email was refused
C3_Witness ==
    /\ call = [method |-> "enrollStudent",
               exc |-> ValidationException("Student already enrolled")]
    /\ Len(courses[1].enrolledStudents) >= 2

\* C4: no domain error raised inside a facade operation propagates past the
\* operation: the process never reaches the fatal-error exit of main.
C4_NoFatalExit == pc # "fatal"

\* registry position of the k-th course (one-based) in which email is not
\* enrolled, 0 when there are fewer
UnenrolledAt(cs, email, k) ==
    LET Free(i) == email \notin Elems(cs[i].enrolledStudents)
        Hits == {i \in 1..Len(cs) :
                    /\ Free(i)
                    /\ Cardinality({j \in 1..i : Free(j)}) = k}
    IN  IF Hits = {} THEN 0 ELSE CHOOSE i \in Hits : TRUE

\* C5: after Student::enrollInCourse reports success for a course the
\* learner was not enrolled in, the learner's email is in the enrolled list
\* of that course in the registry, and Student::displayMenu offers the
\* operation.
C5_SelfEnroll ==
    [][\A s \in StudentObjects, courseIndex \in 1..Len(courses) :
        (/\ UnenrolledAt(courses, users[s].email, courseIndex) # 0
         /\ Student_enrollInCourse(s, courseIndex)
         /\ msg' = "Successfully enrolled in the course")
        => /\ users[s].email \in
                Elems(courses'[UnenrolledAt(courses, users[s].email, courseIndex)]
                        .enrolledStudents)
           /\ "enrollInCourse" \in StudentMenuOps]_vars

\* C6: Admin::enrollStudent for the email of an existing learner account
\* that is not enrolled in the selected course adds the learner to that
\* course and creates no second account.
C6_EnrollExistingLearner ==
    [][\A userIndex \in 1..Len(courses), typed \in StudentTyped :
        LET email == typed[Len(typed)]
        IN  (/\ Admin_enrollStudent(userIndex, typed, S_pw)
             /\ \E i \in 1..Len(users) :
                    users[i].email = email /\ users[i].role = "Student"
             /\ email \notin Elems(courses[userIndex].enrolledStudents))
            => /\ email \in Elems(courses'[userIndex].enrolledStudents)
               /\ users' = users]_vars

\* the learner of account s has a grade record in a course it is no longer
\* enrolled in (it was enrolled, graded and removed)
GradedThenRemoved(s) ==
    \E i \in 1..Len(courses) :
        /\ \E g \in 1..Len(courses[i].grades) : courses[i].grades[g][1] = users[s].email
        /\ users[s].email \notin Elems(courses[i].enrolledStudents)

\* number of courses in which the learner of account s is enrolled
EnrolledCount(s) ==
    Cardinality({i \in 1..Len(courses) :
                    users[s].email \in Elems(courses[i].enrolledStudents)})

\* C7 as stated: once a learner was enrolled, graded and removed, the
\* learner's Student::viewGrades reports "No grade available for this course."
C7_RemovedSeesNoGradeYet ==
    [][\A s \in StudentObjects : \A index \in 0..EnrolledCount(s) :
        (GradedThenRemoved(s) /\ Student_viewGrades(s, index))
        => msg' = "No grade available for this course."]_vars

\* C7 (amended): once a learner was enrolled, graded and removed, the
\* learner's Student::viewGrades does not offer that course: it reports
\* "You are not enrolled in any courses." and shows no grade.
C7_RemovedSeesNotEnrolled ==
    [][\A s \in StudentObjects : \A index \in 0..EnrolledCount(s) :
        (GradedThenRemoved(s) /\ Student_viewGrades(s, index))
        => /\ msg' = "You are not enrolled in any courses."
           /\ view' = <<>>]_vars

\* a removed learner with an old grade record was told it is not enrolled
C7_Witness ==
    /\ msg = "You are not enrolled in any courses."
    /\ view = <<>>
    /\ \E s \in StudentObjects : GradedThenRemoved(s)

\* C8: Course::removeStudent changes only the enrolled list: on success the
\* entry of that email is removed and the others keep their order, grades
\* and contents are unchanged; for an email that is not enrolled it fails
\* with "Student not found" and changes nothing.
C8_RemoveStudentFrame ==
    [][\A studentEmail \in CourseEmailArgs :
        Call_removeStudent(1, studentEmail) =>
            IF studentEmail \in Elems(courses[1].enrolledStudents)
            THEN /\ call'.exc = NoExc
                 /\ courses'[1].enrolledStudents =
                        Without(courses[1].enrolledStudents, studentEmail)
                 /\ Len(courses'[1].enrolledStudents) =
                        Len(courses[1].enrolledStudents) - 1
                 /\ courses'[1].grades = courses[1].grades
                 /\ courses'[1].contents = courses[1].contents
                 /\ courses'[1].courseName = courses[1].courseName
                 /\ courses'[1].teacherEmail = courses[1].teacherEmail
            ELSE /\ call'.exc = ValidationException("Student not found")
                 /\ courses' = courses]_vars

\* a graded student was removed from between two others, its grade remains
C8_Witness ==
    /\ call = [method |-> "removeStudent", exc |-> NoExc]
    /\ courses[1].enrolledStudents = <<S_s2Email, S_t3Email>>
    /\ \E g \in 1..Len(courses[1].grades) : courses[1].grades[g][1] = S_s1Email

\* C9: after any sequence of add-content and remove-content operations the
\* content list of each course equals the plain ordered list that received
\* the same operations.
C9_EditRoundTrip ==
    \A i \in 1..Len(courses) : courses[i].contents = ref[i]

\* the first item was removed and a new one added after the second
C9_Witness ==
    /\ ref[1] = <<S_AdvCalculus, S_Quiz>>
    /\ courses[1].contents = <<S_AdvCalculus, S_Quiz>>
    /\ msg = "Content added successfully."

\* C10: Course::removeContent(i) with 0 <= i < size leaves one element
\* fewer, items before i in place and every later item one position down;
\* with i out of range it throws InvalidCourseIndexException and the
\* content list is unchanged.
C10_RemoveContentShift ==
    [][\A index \in CourseIndexArgs :
        Call_removeContent(1, index) =>
            LET old == courses[1].contents
                new == courses'[1].contents
            IN  IF 0 <= index /\ index < Len(old)
                THEN /\ call'.exc = NoExc
                     /\ Len(new) = Len(old) - 1
                     /\ \A j \in 1..index : new[j] = old[j]
                     /\ \A j \in (index + 1)..Len(new) : new[j] = old[j + 1]
                ELSE /\ call'.exc = InvalidCourseIndexException
                     /\ new = old]_vars

\* the middle one of three items was removed
C10_Witness ==
    /\ call = [method |-> "removeContent", exc |-> NoExc]
    /\ courses[1].contents = <<S_IntroAlgebra, Filled(MaxStrLen)>>

\* C11: LMSManager::getCourse(p) and LMSManager::removeCourse(p) throw
\* InvalidCourseIndexException exactly when p is outside [0, size), with the
\* registry unchanged; a successful getCourse(p) returns the course at p; a
\* successful removeCourse(p) deletes the course at p, keeps the others in
\* order with the later ones one position lower, so that getCourse(p) then
\* returns the course that was at p + 1.
C11_RegistryIndex ==
    [][\A p \in RegistryIndexArgs :
        /\ Call_getCourse(p) =>
              /\ courses' = courses
              /\ IF 0 <= p /\ p < Len(courses)
                 THEN call'.exc = NoExc /\ view' = <<courses[p + 1]>>
                 ELSE call'.exc = InvalidCourseIndexException
        /\ Call_removeCourse(p) =>
              IF 0 <= p /\ p < Len(courses)
              THEN /\ call'.exc = NoExc
                   /\ Len(courses') = Len(courses) - 1
                   /\ \A j \in 1..p : courses'[j] = courses[j]
                   /\ \A j \in (p + 1)..Len(courses') : courses'[j] = courses[j + 1]
                   /\ p + 1 < Len(courses) =>
                         LET g == LMSManager_getCourse(courses', p)
                         IN  g.exc = NoExc /\ courses'[g.at] = courses[p + 2]
              ELSE /\ call'.exc = InvalidCourseIndexException
                   /\ courses' = courses]_vars

\* after removeCourse(0), getCourse(0) returned the course that was second
C11_Witness ==
    /\ call = [method |-> "getCourse", exc |-> NoExc]
    /\ view = <<course2>>
    /\ courses[1] = course2

\* the operation left every course but the one at one-based position k as
\* it was, and the registry as long as it was
OnlyCourse(k) ==
    /\ Len(courses') = Len(courses)
    /\ \A i \in 1..Len(courses) : i # k => courses'[i] = courses[i]

\* C12: every facade operation taking a typed course position k is
\* one-based: for k in 1..size it acts on the course listed at k and on no
\* other (deleteCourse removes exactly that one); for k = 0, k < 0 or
\* k > size the registry and every course stay unchanged; the validated
\* prompts (enrollStudent, addGrade, add content) hand only 1..size to the
\* operation.
C12_OneBasedPosition ==
    /\ [](Len(courses) > 0 => CoursePrompt = 1..Len(courses))
    /\ [][pc = "Admin::manageCourses" => (
          /\ \A k \in IndexInputs(Len(courses)) :
                Admin_deleteCourse(k) =>
                    IF 1 <= k /\ k <= Len(courses)
                    THEN courses' = [i \in 1..(Len(courses) - 1) |->
                                        IF i < k THEN courses[i] ELSE courses[i + 1]]
                    ELSE courses' = courses
          /\ \A in \in FacadeEditInputs(courses) :
                Admin_editCourse(in) =>
                    LET k == in.userIndex
                    IN  IF 1 <= k /\ k <= Len(courses)
                        THEN /\ OnlyCourse(k)
                             /\ msg' = "Content added successfully." =>
                                    courses'[k].contents =
                                        Append(courses[k].contents, in.content)
                             /\ msg' = "Content removed successfully." =>
                                    courses'[k].contents = Tail(courses[k].contents)
                        ELSE courses' = courses)]_vars
    /\ [][pc = "Admin::displayMenu" => (
          /\ \A k \in IndexInputs(Len(courses)) :
                Admin_removeStudent(k, S_s1Email) =>
                    IF 1 <= k /\ k <= Len(courses)
                    THEN /\ OnlyCourse(k)
                         /\ msg' = "Student removed successfully." =>
                                /\ S_s1Email \in Elems(courses[k].enrolledStudents)
                                /\ courses'[k].enrolledStudents =
                                       Without(courses[k].enrolledStudents, S_s1Email)
                    ELSE courses' = courses
          /\ \A k \in (-1)..(Len(courses) + 1) :
                Admin_enrollStudent(k, <<S_s1Email>>, S_pw) =>
                    IF 1 <= k /\ k <= Len(courses)
                    THEN /\ OnlyCourse(k)
                         /\ msg' = "Student enrolled successfully and account created." =>
                                courses'[k].enrolledStudents =
                                    Append(courses[k].enrolledStudents, S_s1Email)
                    ELSE courses' = courses)]_vars
    /\ [][(pc = "Teacher::displayMenu" \/ pc = "Teacher::manageCourses") => (
          \A k \in (-1)..(Len(courses) + 1) :
              /\ Teacher_addGrade(k, <<S_s1Email>>, 87) =>
                    IF 1 <= k /\ k <= Len(courses)
                    THEN /\ OnlyCourse(k)
                         /\ msg' = "Grade added successfully for student" =>
                                courses'[k].grades =
                                    Append(courses[k].grades, <<S_s1Email, 87>>)
                    ELSE courses' = courses
              /\ Teacher_addContent(k, S_Quiz) =>
                    IF 1 <= k /\ k <= Len(courses)
                    THEN /\ OnlyCourse(k)
                         /\ msg' = "Content added to the course" =>
                                courses'[k].contents = Append(courses[k].contents, S_Quiz)
                    ELSE courses' = courses)]_vars

\* with Mathematics deleted, position 1 designated Physics: the content
\* added at position 1 went to it
C12_Witness ==
    /\ msg = "Content added to the course"
    /\ Len(courses) = 1
    /\ courses[1].courseName = S_Physics
    /\ courses[1].contents = Append(course2.contents, S_Quiz)

\* every account of the program: those of main's vector and the Student
\* accounts of the global vector
allAccounts == mainUsers \o users

\* C13: no two accounts (seeded Admin and Teacher accounts, Student
\* accounts created by Admin::enrollStudent) have the same email.
C13_UniqueEmail ==
    \A i, j \in 1..Len(allAccounts) :
        i # j => allAccounts[i].email # allAccounts[j].email

\* the fields of a course are within the limits of the validator
WellFormed(c) ==
    /\ 1 <= Len(c.courseName) /\ Len(c.courseName) <= 100
    /\ isValidEmail(c.teacherEmail)
    /\ \A i \in 1..Len(c.contents) :
          1 <= Len(c.contents[i]) /\ Len(c.contents[i]) <= 100
    /\ \A i \in 1..Len(c.grades) :
          /\ isValidEmail(c.grades[i][1])
          /\ 0 <= c.grades[i][2] /\ c.grades[i][2] <= 100

\* C14: every course of the registry has a name of 1..100 characters and a
\* valid owner email, every content string has 1..100 characters, every
\* grade record has a valid email and a grade in 0..100; addContent with an
\* empty or over-long string and addGrade with an invalid email or a grade
\* outside 0..100 throw ValidationException and leave the course unchanged.
C14_ValidatedFields ==
    /\ [](\A i \in 1..Len(courses) : WellFormed(courses[i]))
    /\ [][\A content \in CourseContentArgs :
            (/\ Call_addContent(1, content)
             /\ (Len(content) = 0 \/ Len(content) > 100))
            => /\ call'.exc = ValidationException("Invalid content")
               /\ courses' = courses]_vars
    /\ [][\A studentEmail \in CourseGradeEmailArgs, grade \in CourseGradeArgs :
            (/\ Call_addGrade(1, studentEmail, grade)
             /\ (~isValidEmail(studentEmail) \/ grade < 0 \/ grade > 100))
            => /\ call'.exc.type = "ValidationException"
               /\ courses' = courses]_vars

\* the limit values 0, 100 and a 100-character string and name were
\* accepted, and then a grade outside 0..100 was refused
C14_Witness ==
    /\ call = [method |-> "addGrade", exc |-> ValidationException("Invalid grade")]
    /\ courses[1].grades = << <<S_s1Email, 0>>, <<S_s1Email, 100>> >>
    /\ courses[1].contents = Append(course1.contents, Filled(MaxStrLen))
    /\ Len(courses) = 3
    /\ courses[3].courseName = Filled(MaxStrLen)

\* s contains an '@' that comes before a '.', with a character before that
\* '@' and a character after the final '.'
SomeAtBeforeDot(s) ==
    /\ \E a \in 1..Len(s) :
          /\ s[a] = "@"
          /\ a > 1
          /\ \E d \in (a + 1)..Len(s) : s[d] = "."
    /\ \E d \in 1..(Len(s) - 1) :
          s[d] = "." /\ \A j \in (d + 1)..Len(s) : s[j] # "."

\* the first '@' of s is not its first character and comes before the
\* final '.', which is not its last character
FirstAtBeforeLastDot(s) ==
    \E a, d \in 1..Len(s) :
        /\ s[a] = "@" /\ \A j \in 1..(a - 1) : s[j] # "@"
        /\ s[d] = "." /\ \A j \in (d + 1)..Len(s) : s[j] # "."
        /\ 1 < a /\ a < d /\ d < Len(s)

\* C15 as stated: isValidEmail(s) is true exactly when s contains an '@'
\* that comes before a '.', with at least one character before that '@' and
\* at least one character after the final '.'.
C15_EmailSomeAt ==
    call.method = "isValidEmail" => (call.ret <=> SomeAtBeforeDot(view))

\* C15 amended: isValidEmail(s) is true exactly when the first '@' of s has
\* at least one character before it and comes before the final '.' of s,
\* and at least one character follows that final '.'.
C15_EmailFirstAt ==
    call.method = "isValidEmail" => (call.ret <=> FirstAtBeforeLastDot(view))

\* a string of the greatest length, with one character before its "@", was accepted
C15_Witness ==
    /\ call.method = "isValidEmail"
    /\ call.ret
    /\ Len(view) = MaxEmailLen
    /\ Cardinality({i \in 1..Len(view) : view[i] = "@"}) = 1
    /\ view[2] = "@"

\* the grade records of this email in course c, in the order recorded
ownGrades(c, email) == SelectSeq(c.grades, LAMBDA g : g[1] = email)

\* C16: for an enrolled learner graded one or more times in a course,
\* Student::viewGrades for that course shows exactly one grade, the
\* learner's own, and it is the value recorded last.
C16_ShowsLatestGrade ==
    [][\A s \in StudentObjects : \A index \in 1..EnrolledCount(s) :
        LET email == users[s].email
            own == ownGrades(enrolledCourses(courses, email)[index], email)
        IN  (/\ Len(own) >= 1
             /\ msg' = "Your Grade in" \/ msg' = "No grade available for this course."
             /\ Student_viewGrades(s, index))
            => view' = <<own[Len(own)][2]>>]_vars

\* C17: a login attempt in main with the email and password of a Student
\* account created by a successful Admin::enrollStudent finds the account
\* and opens the learner menu.
C17_LearnerCanLogIn ==
    [][\A email \in LoginEmailInputs, password \in PasswordInputs :
        (/\ \E i \in StudentObjects :
                users[i].email = email /\ users[i].password = password
         /\ Login(email, password))
        => pc' = "Student::displayMenu"]_vars

\* C18: through the role menus each email is in the enrolled list of at
\* most one course; the Student accounts are never removed; and an
\* Admin::enrollStudent with an email that already has a Student account is
\* rejected for every course and changes nothing, also after the student
\* was removed from its course or the course was deleted.
C18_EnrolledAtMostOnce ==
    /\ [](\A i, j \in 1..Len(courses) :
            i # j => Elems(courses[i].enrolledStudents)
                        \cap Elems(courses[j].enrolledStudents) = {})
    /\ [][/\ Len(users') >= Len(users)
           /\ \A i \in 1..Len(users) : users'[i] = users[i]]_vars
    /\ [][\A userIndex \in 1..Len(courses), typed \in StudentTyped :
            (/\ \E i \in 1..Len(users) : users[i].email = typed[Len(typed)]
             /\ Admin_enrollStudent(userIndex, typed, S_pw))
            => /\ msg' = "Student with this email already exists. Cannot create a duplicate account."
               /\ courses' = courses
               /\ users' = users]_vars

\* the only account, s1@example.com, is enrolled nowhere any more and a new
\* enrollment with its email was rejected
C18_Witness ==
    /\ msg = "Student with this email already exists. Cannot create a duplicate account."
    /\ Len(users) = 1
    /\ users[1].email = S_s1Email
    /\ EnrolledCount(1) = 0

====
